---- MODULE Spec2Model ----
(***************************************************************************)
(* Ihara-Grubb net transformation (src/main.py): the geolocation fallback  *)
(* protocol, the ping latency probe, the haversine distance, the effort    *)
(* transform and the node collection that orchestrates them.               *)
(*                                                                         *)
(* Representation.  A Python float is an integer number of thousandths     *)
(* (Scale): 40.0 is 40000, 12.3 ms is 12300.  NaN and the infinities are   *)
(* not represented.  A Python str is a sequence of one-character strings,  *)
(* so that split(",") and float(str) are computed and not assumed; node    *)
(* names, which are only ever compared, are plain strings.  A raised       *)
(* exception is a result record whose exc field names it.                  *)
(***************************************************************************)
EXTENDS Integers, Sequences, FiniteSets, TLC

VARIABLES nodes, user_node, latency_base_ms, fallback_latency_ms, system, ret

vars == <<nodes, user_node, latency_base_ms, fallback_latency_ms, system, ret>>

\* ------------------------------------------------------------ bounds
\* Largest number of nodes add_node / add_user_node_auto may accumulate.
MaxNodes == 2
\* Largest number of name pairs handed to plot_net in one call.
MaxConnections == 2

\* ------------------------------------------------------------ evaluation
\* The element of a one-element set.  An intermediate value that is used more
\* than once is bound as  Only({ body : x \in {value} }),  which evaluates it
\* once; it reads "let x be value in body".
Only(S) == CHOOSE x \in S : TRUE

\* ------------------------------------------------------------ floats
Scale == 10 ^ 3

Abs(x) == IF x < 0 THEN -x ELSE x
Sgn(x) == IF x < 0 THEN -1 ELSE 1

\* a * b / c rounded toward zero, computed without leaving the 32-bit range
\* (for |b| * c < 2^31).
MulDiv(a, b, c) ==
    Only({ Sgn(x) * Sgn(y) * ((Abs(x) \div c) * Abs(y) + ((Abs(x) % c) * Abs(y)) \div c) :
             x \in {a}, y \in {b} })

\* a * b for two scaled floats.
FMul(a, b) == MulDiv(a, b, Scale)

\* a / b for two scaled floats (b # 0).
FDiv(a, b) == Only({ Sgn(x) * Sgn(y) * ((Abs(x) * Scale) \div Abs(y)) : x \in {a}, y \in {b} })

Max(a, b) == Only({ IF x >= y THEN x ELSE y : x \in {a}, y \in {b} })

\* ------------------------------------------------------------ constants
R_EARTH_KM == 6371 * Scale
DEFAULT_LATENCY_BASE_MS == 100 * Scale
DEFAULT_PING_COUNT == 4
DEFAULT_PING_TIMEOUT == 5
FALLBACK_LATENCY_MS == 999 * Scale

\* ------------------------------------------------------------ str
Digits == {"0", "1", "2", "3", "4", "5", "6", "7", "8", "9"}

DigitVal(c) ==
    CASE c = "0" -> 0 [] c = "1" -> 1 [] c = "2" -> 2 [] c = "3" -> 3
      [] c = "4" -> 4 [] c = "5" -> 5 [] c = "6" -> 6 [] c = "7" -> 7
      [] c = "8" -> 8 [] c = "9" -> 9

\* Whether s[from..to] holds digits only.
DigitsIn(s, from, to) == \A i \in from..to : s[i] \in Digits

AllDigits(s) == DigitsIn(s, 1, Len(s))

\* The index of the first occurrence of character c in s at or after
\* position from, 0 when there is none.
IndexFrom(s, c, from) ==
    IF \E i \in from..Len(s) : s[i] = c
    THEN CHOOSE i \in from..Len(s) : s[i] = c /\ \A j \in from..(i - 1) : s[j] # c
    ELSE 0

\* str.split(sep) for a one-character separator: the list of the parts of s
\* from position from on.
RECURSIVE SplitFrom(_, _, _)
SplitFrom(s, sep, from) ==
    Only({ IF i = 0 THEN <<SubSeq(s, from, Len(s))>>
           ELSE <<SubSeq(s, from, i - 1)>> \o SplitFrom(s, sep, i + 1) :
             i \in {IndexFrom(s, sep, from)} })

Split(s, sep) == Only({ SplitFrom(t, sep, 1) : t \in {s} })

\* The value of the digit string s[from..to] as an integer.
RECURSIVE IntOf(_, _, _)
IntOf(s, from, to) ==
    IF to < from THEN 0 ELSE 10 * IntOf(s, from, to - 1) + DigitVal(s[to])

\* The value of the digits s[from..to] after the point, in thousandths (the
\* digits beyond the third are below the representation's precision).
FracOf(s, from, to) ==
    (IF from <= to THEN 100 * DigitVal(s[from]) ELSE 0)
    + (IF from + 1 <= to THEN 10 * DigitVal(s[from + 1]) ELSE 0)
    + (IF from + 2 <= to THEN DigitVal(s[from + 2]) ELSE 0)

\* The digits of s from position first on, with the point at position dot
\* (Len(s) + 1 when there is none), as a scaled number.
ParseDigits(s, first, dot) ==
    IF /\ DigitsIn(s, first, dot - 1)
       /\ DigitsIn(s, dot + 1, Len(s))
       /\ (dot - first) + (Len(s) - dot) >= 1
    THEN [exc |-> "none", val |-> IntOf(s, first, dot - 1) * Scale + FracOf(s, dot + 1, Len(s))]
    ELSE [exc |-> "ValueError", val |-> 0]

ParseUnsigned(s, first) ==
    Only({ ParseDigits(s, first, IF dot = 0 THEN Len(s) + 1 ELSE dot) :
             dot \in {IndexFrom(s, ".", first)} })

\* float(str): [sign] digits [. [digits]]  or  [sign] . digits ; anything else
\* is a ValueError.  (Exponents, surrounding blanks, "inf" and "nan", which
\* float() also accepts, are outside the alphabet of the strings modelled.)
ParseFloat(str) ==
    Only({ IF Len(s) > 0 /\ s[1] = "-"
           THEN Only({ [exc |-> p.exc, val |-> -p.val] : p \in {ParseUnsigned(s, 2)} })
           ELSE IF Len(s) > 0 /\ s[1] = "+" THEN ParseUnsigned(s, 2)
           ELSE ParseUnsigned(s, 1) :
             s \in {str} })

\* ------------------------------------------------------------ JSON values
Num(n) == [t |-> "num", n |-> n, s |-> <<>>]
Str(s) == [t |-> "str", n |-> 0, s |-> s]
Null == [t |-> "null", n |-> 0, s |-> <<>>]

\* Python truthiness of a decoded JSON scalar.
Truthy(v) ==
    CASE v.t = "str" -> v.s # <<>>
      [] v.t = "num" -> v.n # 0
      [] OTHER -> FALSE

\* dict.get(key, default)
Get(data, key, default) == IF key \in DOMAIN data THEN data[key] ELSE default

\* float(x) for a decoded JSON scalar: a number converts, a string is parsed,
\* None is a TypeError.
ToFloat(x) ==
    Only({ CASE v.t = "num" -> [exc |-> "none", val |-> v.n]
             [] v.t = "str" -> ParseFloat(v.s)
             [] OTHER -> [exc |-> "TypeError", val |-> 0] :
             v \in {x} })

Triple(lat, lon, ip) == [exc |-> "none", lat |-> lat, lon |-> lon, ip |-> ip]
RaiseT(e) == [exc |-> e, lat |-> 0, lon |-> 0, ip |-> Str(<<>>)]

\* ------------------------------------------------------------ adapters
_parse_ipapi_response(data) ==
    Only({ IF lat.exc # "none" THEN RaiseT(lat.exc)
           ELSE Only({ IF lon.exc # "none" THEN RaiseT(lon.exc)
                       ELSE Triple(lat.val, lon.val, Get(data, "query", Str(<<>>))) :
                         lon \in {ToFloat(Get(data, "lon", Num(0)))} }) :
             lat \in {ToFloat(Get(data, "lat", Num(0)))} })

\* ParseCoords without the except clause: the ValueError of float() escapes.
ParseCoords_NoExcept(coords, ip) ==
    IF Len(coords) = 2
    THEN Only({ IF lat.exc # "none" THEN RaiseT(lat.exc)
                ELSE IF lon.exc # "none" THEN RaiseT(lon.exc)
                ELSE Triple(lat.val, lon.val, ip) :
                  lat \in {ParseFloat(coords[1])}, lon \in {ParseFloat(coords[2])} })
    ELSE Triple(0, 0, ip)

\* The tail of _parse_ipinfo_response: coords is loc_str.split(","), ip is
\* data.get("ip", "").
ParseCoords(coords, ip) ==
    IF Len(coords) = 2
    THEN Only({ IF lat.exc = "none" /\ lon.exc = "none" THEN Triple(lat.val, lon.val, ip)
                ELSE Triple(0, 0, ip) :
                  lat \in {ParseFloat(coords[1])}, lon \in {ParseFloat(coords[2])} })
    ELSE Triple(0, 0, ip)

_parse_ipinfo_response(data) ==
    Only({ IF loc_str.t # "str" THEN RaiseT("AttributeError")
           ELSE Only({ ParseCoords(coords, Get(data, "ip", Str(<<>>))) :
                         coords \in {Split(loc_str.s, ",")} }) :
             loc_str \in {Get(data, "loc", Str(<<"0", ",", "0">>))} })

\* ------------------------------------------------------------ GeoLocator
\* The services list of fetch_user_location, in the order it is iterated.
services ==
    << [name |-> "ip-api.com", parse |-> "ipapi"],
       [name |-> "ipinfo.io", parse |-> "ipinfo"] >>

\* service["parse"](data)
Parse(service, data) ==
    IF service.parse = "ipapi" THEN _parse_ipapi_response(data)
    ELSE _parse_ipinfo_response(data)

\* Branch with the both-zero answer accepted like any other.
Branch_AcceptZero(t) ==
    IF t.exc \in {"KeyError", "ValueError", "TypeError"} THEN [branch |-> "ParseError", t |-> t]
    ELSE IF t.exc # "none" THEN [branch |-> "Unexpected", t |-> t]
    ELSE [branch |-> "accepted", t |-> t]

\* The branch of the loop body a parsed answer t takes.
Branch(t) ==
    IF t.exc \in {"KeyError", "ValueError", "TypeError"} THEN [branch |-> "ParseError", t |-> t]
    ELSE IF t.exc # "none" THEN [branch |-> "Unexpected", t |-> t]
    ELSE IF t.lat # 0 \/ t.lon # 0 THEN [branch |-> "accepted", t |-> t]
    ELSE [branch |-> "invalid_coordinates", t |-> t]

\* What one pass of the loop body does with the answer `resp` of `service`:
\* the branch taken and, when the answer is accepted, the triple returned.
\*   resp.kind  "RequestError"     client.get raised httpx.RequestError
\*              "HTTPStatusError"  raise_for_status raised
\*              "JSONDecodeError"  response.json() raised (a ValueError)
\*              "ok"               resp.data is the decoded mapping
TryService(service, resp) ==
    IF resp.kind = "RequestError" THEN [branch |-> "RequestError", t |-> RaiseT("RequestError")]
    ELSE IF resp.kind = "HTTPStatusError" THEN [branch |-> "HTTPStatusError", t |-> RaiseT("HTTPStatusError")]
    ELSE IF resp.kind = "JSONDecodeError" THEN [branch |-> "ParseError", t |-> RaiseT("ValueError")]
    ELSE Only({ Branch(t) : t \in {Parse(service, resp.data)} })

\* The for loop from service i on; log lists the services contacted so far
\* with the branch each took.
RECURSIVE FetchFrom(_, _, _)
FetchFrom(resp, i, log) ==
    IF i > Len(services)
    THEN [exc |-> "RuntimeError", lat |-> 0, lon |-> 0, ip |-> Str(<<>>), log |-> log]
    ELSE Only({ IF r.branch = "accepted"
                THEN [exc |-> "none", lat |-> r.t.lat, lon |-> r.t.lon, ip |-> r.t.ip,
                      log |-> Append(log, [service |-> services[i].name, branch |-> r.branch])]
                ELSE FetchFrom(resp, i + 1,
                               Append(log, [service |-> services[i].name, branch |-> r.branch])) :
                  r \in {TryService(services[i], resp[i])} })

\* fetch_user_location(), where resp[i] is what service i answers if asked.
fetch_user_location(resp) == FetchFrom(resp, 1, <<>>)

\* ------------------------------------------------------------ LatencyProbe
ZeroAddress == <<"0", ".", "0", ".", "0", ".", "0">>

\* Whether `group` can be group(1) of a match of the regex chosen for
\* the host family sys: (\d+) on Windows, ([\d.]+) on Linux and Darwin.
GroupConforms(sys, group) ==
    /\ group # <<>>
    /\ IF sys = "Windows" THEN AllDigits(group)
       ELSE \A i \in 1..Len(group) : group[i] \in Digits \cup {"."}

\* get_live_latency returning the module's default in place of the configured
\* fallback.
get_live_latency_ConstFallback(ip_address, fallback, env) ==
    IF ip_address = <<>> \/ ip_address = ZeroAddress
    THEN [exc |-> "none", val |-> 0, spawned |-> FALSE, branch |-> "invalid_ip"]
    ELSE IF env.system \notin {"Windows", "Linux", "Darwin"}
    THEN [exc |-> "none", val |-> FALLBACK_LATENCY_MS, spawned |-> FALSE, branch |-> "unsupported_os"]
    ELSE IF env.kind = "TimeoutExpired"
    THEN [exc |-> "none", val |-> FALLBACK_LATENCY_MS, spawned |-> TRUE, branch |-> "timeout"]
    ELSE IF env.kind = "Exception"
    THEN [exc |-> "none", val |-> FALLBACK_LATENCY_MS, spawned |-> TRUE, branch |-> "exception"]
    ELSE IF env.returncode # 0
    THEN [exc |-> "none", val |-> FALLBACK_LATENCY_MS, spawned |-> TRUE, branch |-> "nonzero_exit"]
    ELSE IF env.matched
    THEN Only({ IF avg_latency.exc = "none"
                THEN [exc |-> "none", val |-> avg_latency.val, spawned |-> TRUE, branch |-> "parsed"]
                ELSE [exc |-> "none", val |-> FALLBACK_LATENCY_MS, spawned |-> TRUE, branch |-> "exception"] :
                  avg_latency \in {ParseFloat(env.group)} })
    ELSE [exc |-> "none", val |-> (env.elapsed * 1000) \div 2, spawned |-> TRUE, branch |-> "estimated"]

\* get_live_latency with the platform check ahead of the address check.
get_live_latency_PlatformFirst(ip_address, fallback, env) ==
    IF env.system \notin {"Windows", "Linux", "Darwin"}
    THEN [exc |-> "none", val |-> fallback, spawned |-> FALSE, branch |-> "unsupported_os"]
    ELSE IF ip_address = <<>> \/ ip_address = ZeroAddress
    THEN [exc |-> "none", val |-> 0, spawned |-> FALSE, branch |-> "invalid_ip"]
    ELSE IF env.kind = "TimeoutExpired"
    THEN [exc |-> "none", val |-> fallback, spawned |-> TRUE, branch |-> "timeout"]
    ELSE IF env.kind = "Exception"
    THEN [exc |-> "none", val |-> fallback, spawned |-> TRUE, branch |-> "exception"]
    ELSE IF env.returncode # 0
    THEN [exc |-> "none", val |-> fallback, spawned |-> TRUE, branch |-> "nonzero_exit"]
    ELSE IF env.matched
    THEN Only({ IF avg_latency.exc = "none"
                THEN [exc |-> "none", val |-> avg_latency.val, spawned |-> TRUE, branch |-> "parsed"]
                ELSE [exc |-> "none", val |-> fallback, spawned |-> TRUE, branch |-> "exception"] :
                  avg_latency \in {ParseFloat(env.group)} })
    ELSE [exc |-> "none", val |-> (env.elapsed * 1000) \div 2, spawned |-> TRUE, branch |-> "estimated"]

\* get_live_latency without the test of the exit code.
get_live_latency_NoExitCheck(ip_address, fallback, env) ==
    IF ip_address = <<>> \/ ip_address = ZeroAddress
    THEN [exc |-> "none", val |-> 0, spawned |-> FALSE, branch |-> "invalid_ip"]
    ELSE IF env.system \notin {"Windows", "Linux", "Darwin"}
    THEN [exc |-> "none", val |-> fallback, spawned |-> FALSE, branch |-> "unsupported_os"]
    ELSE IF env.kind = "TimeoutExpired"
    THEN [exc |-> "none", val |-> fallback, spawned |-> TRUE, branch |-> "timeout"]
    ELSE IF env.kind = "Exception"
    THEN [exc |-> "none", val |-> fallback, spawned |-> TRUE, branch |-> "exception"]
    ELSE IF env.matched
    THEN Only({ IF avg_latency.exc = "none"
                THEN [exc |-> "none", val |-> avg_latency.val, spawned |-> TRUE, branch |-> "parsed"]
                ELSE [exc |-> "none", val |-> fallback, spawned |-> TRUE, branch |-> "exception"] :
                  avg_latency \in {ParseFloat(env.group)} })
    ELSE [exc |-> "none", val |-> (env.elapsed * 1000) \div 2, spawned |-> TRUE, branch |-> "estimated"]

\* get_live_latency(ip_address) with fallback_latency_ms = fallback, on a host
\* and with a ping process described by env:
\*   env.system     platform.system()
\*   env.kind       "TimeoutExpired" | "Exception" (subprocess.run raised) | "exit"
\*   env.returncode the exit code
\*   env.matched, env.group   whether re.search found the pattern, and group(1)
\*   env.elapsed    end_time - start_time, in seconds
\* The result records the value returned, whether subprocess.run was reached
\* (spawned) and the return statement taken (branch).
get_live_latency(ip_address, fallback, env) ==
    IF ip_address = <<>> \/ ip_address = ZeroAddress
    THEN [exc |-> "none", val |-> 0, spawned |-> FALSE, branch |-> "invalid_ip"]
    ELSE IF env.system \notin {"Windows", "Linux", "Darwin"}
    THEN [exc |-> "none", val |-> fallback, spawned |-> FALSE, branch |-> "unsupported_os"]
    ELSE IF env.kind = "TimeoutExpired"
    THEN [exc |-> "none", val |-> fallback, spawned |-> TRUE, branch |-> "timeout"]
    ELSE IF env.kind = "Exception"
    THEN [exc |-> "none", val |-> fallback, spawned |-> TRUE, branch |-> "exception"]
    ELSE IF env.returncode # 0
    THEN [exc |-> "none", val |-> fallback, spawned |-> TRUE, branch |-> "nonzero_exit"]
    ELSE IF env.matched
    THEN Only({ IF avg_latency.exc = "none"
                THEN [exc |-> "none", val |-> avg_latency.val, spawned |-> TRUE, branch |-> "parsed"]
                ELSE [exc |-> "none", val |-> fallback, spawned |-> TRUE, branch |-> "exception"] :
                  avg_latency \in {ParseFloat(env.group)} })
    ELSE [exc |-> "none", val |-> (env.elapsed * 1000) \div 2, spawned |-> TRUE, branch |-> "estimated"]

\* ------------------------------------------------------------ GeoMath
\* Angles in radians and the values of sin, cos, sqrt and atan2 are integers
\* in units of 1/TrigScale.
TrigScale == 10 ^ 4
PI_T == 31416
HALF_PI_T == 15708
QUARTER_PI_T == 7854

TMul(a, b) == MulDiv(a, b, TrigScale)

\* x / 2
Half(x) == Only({ Sgn(v) * (Abs(v) \div 2) : v \in {x} })

\* math.radians of a scaled number of degrees: deg * pi / 180.
Radians(deg) == MulDiv(deg, 17453, 100000)

\* t - t*x2/(k(k+1)) + t*x2^2/(k(k+1)(k+2)(k+3)) - ... up to the factor
\* kmax(kmax+1): the Taylor series of sin (from t = x, k = 2) and of cos (from
\* t = 1, k = 1).
RECURSIVE Series(_, _, _, _)
Series(t, x2, k, kmax) ==
    IF k > kmax THEN t
    ELSE Only({ t - Series(n, x2, k + 2, kmax) : n \in {TMul(t, x2) \div (k * (k + 1))} })

\* math.sin for |x| <= pi (odd, sin(x) = sin(pi - x) beyond pi/2, then the
\* Taylor series to the x^9 term).
Sin(x) ==
    Only({ Only({ Sgn(v) * Series(r, r2, 2, 8) : r2 \in {TMul(r, r)} }) :
             v \in {x}, r \in {IF Abs(x) > HALF_PI_T THEN PI_T - Abs(x) ELSE Abs(x)} })

\* math.cos for |x| <= pi / 2 (the Taylor series to the x^10 term).
Cos(x) == Only({ Series(TrigScale, x2, 1, 9) : x2 \in {TMul(x, x)} })

\* The integer square root, by Newton's iteration from above.
RECURSIVE IsqrtFrom(_, _)
IsqrtFrom(n, g) ==
    Only({ IF h >= g THEN g ELSE IsqrtFrom(n, h) : h \in {(g + n \div g) \div 2} })

\* math.sqrt of a value in [0, 1] (so that the root is at most 1, where the
\* iteration starts).
Sqrt(a) == Only({ IF v <= 0 THEN 0 ELSE IsqrtFrom(v * TrigScale, TrigScale) : v \in {a} })

\* p/k - p*z2/(k+2) + ... up to the divisor kmax.
RECURSIVE AtanSeries(_, _, _, _)
AtanSeries(p, z2, k, kmax) ==
    IF k >= kmax THEN p \div k
    ELSE Only({ p \div k - AtanSeries(q, z2, k + 2, kmax) : q \in {TMul(p, z2)} })

\* atan(z) for |z| <= tan(pi / 8): the Taylor series to the z^9 term.
AtanSmall(z) == Only({ AtanSeries(v, TMul(v, v), 1, 9) : v \in {z} })

\* atan(t) for 0 <= t <= 1: atan(t) = pi/4 + atan((t - 1) / (t + 1)).
Atan01(t) ==
    Only({ IF v <= 4142 THEN AtanSmall(v)
           ELSE QUARTER_PI_T + AtanSmall(MulDiv(v - TrigScale, TrigScale, v + TrigScale)) :
             v \in {t} })

\* math.atan2(y, x) for y >= 0 and x >= 0.
Atan2(y, x) ==
    Only({ IF v = 0 THEN 0
           ELSE IF v <= w THEN Atan01(MulDiv(v, TrigScale, w))
           ELSE HALF_PI_T - Atan01(MulDiv(w, TrigScale, v)) :
             v \in {y}, w \in {x} })

\* The distance of two points given in radians, in km:
\*   a = sin(dlat/2)^2 + cos(lat1) * cos(lat2) * sin(dlon/2)^2
\*   c = 2 * atan2(sqrt(a), sqrt(1 - a))
\*   R_EARTH_KM * c
\* a is at most 1; the rounding of the products is kept from carrying it
\* past 1.
Distance(lat1, lon1, lat2, lon2) ==
    Only({ Only({ MulDiv(R_EARTH_KM, 2 * Atan2(Sqrt(a), Sqrt(TrigScale - a)), TrigScale) :
                    a \in {IF a0 > TrigScale THEN TrigScale ELSE a0} }) :
             a0 \in { Only({ TMul(sdlat, sdlat) + TMul(TMul(Cos(lat1), Cos(lat2)), TMul(sdlon, sdlon)) :
                               sdlat \in {Sin(Half(lat2 - lat1))},
                               sdlon \in {Sin(Half(lon2 - lon1))} }) } })

\* haversine with strict comparisons in the range checks.
haversine_Strict(lat1, lon1, lat2, lon2) ==
    IF ~(-90 * Scale < lat1 /\ lat1 < 90 * Scale) \/ ~(-90 * Scale < lat2 /\ lat2 < 90 * Scale)
    THEN [exc |-> "ValueError", msg |-> "Latitude must be between -90 and 90 degrees", val |-> 0]
    ELSE IF ~(-180 * Scale < lon1 /\ lon1 < 180 * Scale) \/ ~(-180 * Scale < lon2 /\ lon2 < 180 * Scale)
    THEN [exc |-> "ValueError", msg |-> "Longitude must be between -180 and 180 degrees", val |-> 0]
    ELSE Only({ [exc |-> "none", msg |-> "", val |-> Distance(rlat1, rlon1, rlat2, rlon2)] :
                  rlat1 \in {Radians(lat1)}, rlon1 \in {Radians(lon1)},
                  rlat2 \in {Radians(lat2)}, rlon2 \in {Radians(lon2)} })

\* haversine(lat1, lon1, lat2, lon2): the distance in km, or the ValueError
\* of the failed range check.
haversine(lat1, lon1, lat2, lon2) ==
    IF ~(-90 * Scale <= lat1 /\ lat1 <= 90 * Scale) \/ ~(-90 * Scale <= lat2 /\ lat2 <= 90 * Scale)
    THEN [exc |-> "ValueError", msg |-> "Latitude must be between -90 and 90 degrees", val |-> 0]
    ELSE IF ~(-180 * Scale <= lon1 /\ lon1 <= 180 * Scale) \/ ~(-180 * Scale <= lon2 /\ lon2 <= 180 * Scale)
    THEN [exc |-> "ValueError", msg |-> "Longitude must be between -180 and 180 degrees", val |-> 0]
    ELSE Only({ [exc |-> "none", msg |-> "", val |-> Distance(rlat1, rlon1, rlat2, rlon2)] :
                  rlat1 \in {Radians(lat1)}, rlon1 \in {Radians(lon1)},
                  rlat2 \in {Radians(lat2)}, rlon2 \in {Radians(lon2)} })

\* ------------------------------------------------------------ Node
\* Optional[float]: None, or a measured value.
None == [some |-> FALSE, v |-> 0]
Some(x) == [some |-> TRUE, v |-> x]

\* Node.__init__
Node(name, lat, lon, elevation_floor, ip_address) ==
    [name |-> name, lat |-> lat, lon |-> lon, elevation |-> elevation_floor,
     ip_address |-> ip_address, latency |-> None]

\* ------------------------------------------------------------ EffortTransform
\* The return statement of calculate_ig_distance.
Effort(physical_distance_km, worst_latency, ig_factor) ==
    [exc |-> "none", msg |-> "",
     physical_dist |-> physical_distance_km, worst_latency |-> worst_latency,
     ig_distance |-> FMul(physical_distance_km, ig_factor), ig_factor |-> ig_factor]

\* calculate_ig_distance taking a latency of 0.0 for an absent one (a test of
\* truthiness in place of the test against None).
calculate_ig_distance_ZeroAbsent(node1, node2, base) ==
    IF ~node1.latency.some \/ ~node2.latency.some \/ node1.latency.v = 0 \/ node2.latency.v = 0
    THEN [exc |-> "ValueError",
          msg |-> "Latency must be fetched before calculating IG distance. Call measure_latencies() first.",
          physical_dist |-> 0, worst_latency |-> 0, ig_distance |-> 0, ig_factor |-> 0]
    ELSE Only({ IF h.exc # "none"
                THEN [exc |-> h.exc, msg |-> h.msg,
                      physical_dist |-> 0, worst_latency |-> 0, ig_distance |-> 0, ig_factor |-> 0]
                ELSE Only({ Only({ Effort(h.val, worst_latency, ig_factor) :
                                     ig_factor \in {1 * Scale + FDiv(worst_latency, base)} }) :
                              worst_latency \in {Max(node1.latency.v, node2.latency.v)} }) :
                  h \in {haversine(node1.lat, node1.lon, node2.lat, node2.lon)} })

\* calculate_ig_distance with the smaller of the two latencies as the worst.
calculate_ig_distance_Min(node1, node2, base) ==
    IF ~node1.latency.some \/ ~node2.latency.some
    THEN [exc |-> "ValueError",
          msg |-> "Latency must be fetched before calculating IG distance. Call measure_latencies() first.",
          physical_dist |-> 0, worst_latency |-> 0, ig_distance |-> 0, ig_factor |-> 0]
    ELSE Only({ IF h.exc # "none"
                THEN [exc |-> h.exc, msg |-> h.msg,
                      physical_dist |-> 0, worst_latency |-> 0, ig_distance |-> 0, ig_factor |-> 0]
                ELSE Only({ Only({ Effort(h.val, worst_latency, ig_factor) :
                                     ig_factor \in {1 * Scale + FDiv(worst_latency, base)} }) :
                              worst_latency \in {-Max(-node1.latency.v, -node2.latency.v)} }) :
                  h \in {haversine(node1.lat, node1.lon, node2.lat, node2.lon)} })

\* calculate_ig_distance(node1, node2) with self.latency_base_ms = base.
calculate_ig_distance(node1, node2, base) ==
    IF ~node1.latency.some \/ ~node2.latency.some
    THEN [exc |-> "ValueError",
          msg |-> "Latency must be fetched before calculating IG distance. Call measure_latencies() first.",
          physical_dist |-> 0, worst_latency |-> 0, ig_distance |-> 0, ig_factor |-> 0]
    ELSE Only({ IF h.exc # "none"
                THEN [exc |-> h.exc, msg |-> h.msg,
                      physical_dist |-> 0, worst_latency |-> 0, ig_distance |-> 0, ig_factor |-> 0]
                ELSE Only({ Only({ Effort(h.val, worst_latency, ig_factor) :
                                     ig_factor \in {1 * Scale + FDiv(worst_latency, base)} }) :
                              worst_latency \in {Max(node1.latency.v, node2.latency.v)} }) :
                  h \in {haversine(node1.lat, node1.lon, node2.lat, node2.lon)} })

\* ------------------------------------------------------------ NetworkModel
\* MeasureNode without the special case of the self node.
MeasureNode_NoSelf(m, i, user, fallback, envs) ==
    IF m.nodes[i].ip_address # <<>>
    THEN Only({ [nodes |-> [m.nodes EXCEPT ![i].latency = Some(r.val)],
                 probes |-> Append(m.probes, [ip_address |-> m.nodes[i].ip_address, val |-> r.val,
                                              spawned |-> r.spawned])] :
                  r \in {get_live_latency(m.nodes[i].ip_address, fallback, envs[i])} })
    ELSE [nodes |-> [m.nodes EXCEPT ![i].latency = Some(5 * Scale)], probes |-> m.probes]

\* One pass of the loop of measure_latencies, for node i: m.nodes is the node
\* list as updated so far, m.probes the get_live_latency calls made so far
\* (address and value returned), envs[i] the host and ping process the probe
\* of node i meets.  user is the index of self.user_node, 0 for None.
MeasureNode(m, i, user, fallback, envs) ==
    IF m.nodes[i].ip_address # <<>>
    THEN Only({ [nodes |-> [m.nodes EXCEPT ![i].latency = Some(r.val)],
                 probes |-> Append(m.probes, [ip_address |-> m.nodes[i].ip_address, val |-> r.val,
                                              spawned |-> r.spawned])] :
                  r \in {get_live_latency(m.nodes[i].ip_address, fallback, envs[i])} })
    ELSE IF i = user
    THEN [nodes |-> [m.nodes EXCEPT ![i].latency = Some(0)], probes |-> m.probes]
    ELSE [nodes |-> [m.nodes EXCEPT ![i].latency = Some(5 * Scale)], probes |-> m.probes]

\* The loop of measure_latencies from node i on.
RECURSIVE MeasureFrom(_, _, _, _, _)
MeasureFrom(m, i, user, fallback, envs) ==
    IF i > Len(m.nodes) THEN m
    ELSE Only({ MeasureFrom(m2, i + 1, user, fallback, envs) :
                  m2 \in {MeasureNode(m, i, user, fallback, envs)} })

measure_latencies(ns, user, fallback, envs) ==
    Only({ MeasureFrom(m, 1, user, fallback, envs) : m \in {[nodes |-> ns, probes |-> <<>>]} })

\* node_map = {n.name: n for n in self.nodes}, then node_map.get(name): the
\* index of the last node inserted under that name, 0 for None.
NodeMapGet(ns, name) ==
    IF \E i \in 1..Len(ns) : ns[i].name = name
    THEN CHOOSE i \in 1..Len(ns) : ns[i].name = name /\ \A j \in (i + 1)..Len(ns) : ns[j].name # name
    ELSE 0

\* Connect keeping an entry for a pair whose calculate_ig_distance raised.
Connect_KeepFailed(ns, base, n1, n2) ==
    IF n1 = 0 \/ n2 = 0 THEN <<>>
    ELSE Only({ << [n1 |-> n1, n2 |-> n2,
                    physical_dist |-> r.physical_dist,
                    worst_latency |-> r.worst_latency,
                    ig_distance |-> r.ig_distance,
                    ig_factor |-> r.ig_factor] >> :
                  r \in {calculate_ig_distance(ns[n1], ns[n2], base)} })

\* One pass of the connection loop of plot_net, for the pair <<name1, name2>>:
\* the entries it appends to calculated_connections (none when a name does not
\* resolve or calculate_ig_distance raises ValueError).
Connect(ns, base, n1, n2) ==
    IF n1 = 0 \/ n2 = 0 THEN <<>>
    ELSE Only({ IF r.exc = "ValueError" THEN <<>>
                ELSE << [n1 |-> n1, n2 |-> n2,
                         physical_dist |-> r.physical_dist,
                         worst_latency |-> r.worst_latency,
                         ig_distance |-> r.ig_distance,
                         ig_factor |-> r.ig_factor] >> :
                  r \in {calculate_ig_distance(ns[n1], ns[n2], base)} })

\* The connection loop of plot_net from pair k on: what it appends to
\* calculated_connections.
RECURSIVE ConnectFrom(_, _, _, _)
ConnectFrom(ns, base, connections, k) ==
    IF k > Len(connections) THEN <<>>
    ELSE Only({ Connect(ns, base, n1, n2) :
                  n1 \in {NodeMapGet(ns, connections[k][1])},
                  n2 \in {NodeMapGet(ns, connections[k][2])} })
         \o ConnectFrom(ns, base, connections, k + 1)

\* What follows the connection loop in plot_net.  Nothing is drawn when no
\* connection was calculated.  Otherwise each line's thickness is
\* 2 + 10 * (ig_distance / max_ig_dist), a float division that raises
\* ZeroDivisionError when the largest calculated ig_distance is 0.0.  The
\* drawing changes no state of the model.
Draw(calculated) ==
    IF calculated = <<>> THEN "none"
    ELSE IF \A j \in 1..Len(calculated) : calculated[j].ig_distance <= 0 THEN "ZeroDivisionError"
    ELSE "none"

\* plot_net running measure_latencies whether or not a latency is absent.
plot_net_AlwaysMeasures(ns, user, base, fallback, connections, envs) ==
    IF ns = <<>>
    THEN [exc |-> "ValueError", msg |-> "No nodes added. Use add_node() to add nodes first.",
          nodes |-> ns, measured |-> FALSE, probes |-> <<>>, calculated |-> <<>>]
    ELSE Only({ Only({ [exc |-> Draw(calculated), msg |-> "", nodes |-> m.nodes,
                        measured |-> TRUE, probes |-> m.probes,
                        calculated |-> calculated] :
                         calculated \in {ConnectFrom(m.nodes, base, connections, 1)} }) :
                  m \in {measure_latencies(ns, user, fallback, envs)} })

\* plot_net(connections): the exception it ends with, the node list it leaves,
\* whether it ran measure_latencies and the probes that made, and
\* calculated_connections as the connection loop left it.
plot_net(ns, user, base, fallback, connections, envs) ==
    IF ns = <<>>
    THEN [exc |-> "ValueError", msg |-> "No nodes added. Use add_node() to add nodes first.",
          nodes |-> ns, measured |-> FALSE, probes |-> <<>>, calculated |-> <<>>]
    ELSE Only({ Only({ [exc |-> Draw(calculated), msg |-> "", nodes |-> m.nodes,
                        measured |-> unmeasured, probes |-> m.probes,
                        calculated |-> calculated] :
                         calculated \in {ConnectFrom(m.nodes, base, connections, 1)} }) :
                  unmeasured \in {\E i \in 1..Len(ns) : ~ns[i].latency.some},
                  m \in {IF \E i \in 1..Len(ns) : ~ns[i].latency.some
                         THEN measure_latencies(ns, user, fallback, envs)
                         ELSE [nodes |-> ns, probes |-> <<>>]} })

\* ------------------------------------------------------------ inputs
S_1_1_1_1 == <<"1", ".", "1", ".", "1", ".", "1">>
S_8_8_8_8 == <<"8", ".", "8", ".", "8", ".", "8">>
S_9_9_9_9 == <<"9", ".", "9", ".", "9", ".", "9">>

\* Arguments of add_node (name, lat, lon, elevation_floor, ip_address): a node
\* without an address, a node with one, and a node whose latitude is out of
\* range and whose address is the unset sentinel.
NodeInputs ==
    { <<"A", 37775, -122419, 15 * Scale, <<>> >>,
      <<"B", 40713, -74006, 30 * Scale, S_1_1_1_1>>,
      <<"B", 91 * Scale, 0, 5 * Scale, ZeroAddress>> }

\* ip_address arguments of get_live_latency.
Addresses == {<<>>, ZeroAddress, S_1_1_1_1}

\* platform.system() of the host.
Systems == {"Windows", "Linux", "Darwin", "Java"}

\* Constructor arguments.
LatencyBaseValues == {DEFAULT_LATENCY_BASE_MS, 50 * Scale}
FallbackValues == {FALLBACK_LATENCY_MS, 250 * Scale}

\* Texts the ping output's average field may hold.
Groups == { <<"1", "2">>, <<"1", "2", ".", "3">>, <<"1", ".", "2", ".", "3">> }

\* Wall-clock durations of the ping invocation, in seconds (0.040 s).
Elapsed == {40}

Run(kind, returncode, matched, group, elapsed) ==
    [kind |-> kind, returncode |-> returncode, matched |-> matched, group |-> group,
     elapsed |-> elapsed]

\* What the ping process of one probe can do on a host of family sys.
PingRuns(sys) ==
    { Run("TimeoutExpired", 0, FALSE, <<>>, 0), Run("Exception", 0, FALSE, <<>>, 0) }
    \cup { Run("exit", rc, FALSE, <<>>, e) : rc \in {0, 1}, e \in Elapsed }
    \cup { r \in { Run("exit", rc, TRUE, g, e) : rc \in {0, 1}, g \in Groups, e \in Elapsed } :
             GroupConforms(sys, r.group) }

\* The environment of one get_live_latency call.
ProbeEnv(sys, run) ==
    [system |-> sys, kind |-> run.kind, returncode |-> run.returncode,
     matched |-> run.matched, group |-> run.group, elapsed |-> run.elapsed]

Failure(kind) == [kind |-> kind, data |-> <<>>]
Ok(data) == [kind |-> "ok", data |-> data]

S_40_73 == <<"4", "0", ".", "0", ",", "-", "7", "3", ".", "0">>

\* Decoded JSON bodies of ip-api.com.
IpapiData ==
    { [lat |-> Num(0), lon |-> Num(0)],
      [lat |-> Num(51500), lon |-> Num(-100), query |-> Str(S_8_8_8_8)],
      [lat |-> Num(95 * Scale), lon |-> Num(10 * Scale), query |-> Str(S_8_8_8_8)],
      [lat |-> Str(<<"5", "1", ".", "5">>), lon |-> Str(<<"-", "0", ".", "1">>)],
      [lat |-> Str(<<"a", "b", "c">>), lon |-> Num(1 * Scale)],
      [lat |-> Num(1 * Scale), lon |-> Null],
      [query |-> Str(S_8_8_8_8)] }

\* Decoded JSON bodies of ipinfo.io.
IpinfoData ==
    { [loc |-> Str(S_40_73), ip |-> Str(S_9_9_9_9)],
      [loc |-> Str(S_40_73)],
      [loc |-> Str(<<"a", "b", "c", ",", "1">>), ip |-> Str(S_9_9_9_9)],
      [loc |-> Str(<<"4", "0", ".", "0">>), ip |-> Str(S_9_9_9_9)],
      [loc |-> Str(<<"1", ",", "2", ",", "3">>), ip |-> Str(S_9_9_9_9)],
      [loc |-> Str(<<"0", ",", "0">>), ip |-> Str(S_9_9_9_9)],
      [loc |-> Null, ip |-> Str(S_9_9_9_9)],
      [loc |-> Num(40 * Scale), ip |-> Str(S_9_9_9_9)],
      [ip |-> Str(S_9_9_9_9)] }

Failures == { Failure("RequestError"), Failure("HTTPStatusError"), Failure("JSONDecodeError") }

\* resp[i] is the answer of services[i].
ResponseLists ==
    { <<r1, r2>> : r1 \in Failures \cup { Ok(d) : d \in IpapiData },
                   r2 \in Failures \cup { Ok(d) : d \in IpinfoData } }

\* The answers the services give while the node collection is built.
NetworkResponseLists ==
    { <<r1, r2>> :
        r1 \in { Failure("RequestError"),
                 Ok([lat |-> Num(0), lon |-> Num(0)]),
                 Ok([lat |-> Str(<<"a", "b", "c">>), lon |-> Num(1 * Scale)]),
                 Ok([lat |-> Num(95 * Scale), lon |-> Num(10 * Scale), query |-> Str(S_8_8_8_8)]) },
        r2 \in { Failure("HTTPStatusError"),
                 Ok([loc |-> Null, ip |-> Str(S_9_9_9_9)]),
                 Ok([loc |-> Str(S_40_73)]) } }

\* The hosts and ping processes met while the node collection is probed.
NetworkSystems == {"Linux", "Java"}
NetworkRuns ==
    { Run("TimeoutExpired", 0, FALSE, <<>>, 0),
      Run("exit", 0, TRUE, <<"1", "2", ".", "3">>, 40) }

\* Name pairs handed to plot_net: two nodes, a node with itself, and a name
\* ("C") that no node carries.
Pairs == { <<"A", "B">>, <<"B", "B">>, <<"A", "C">> }
ConnectionLists == UNION { [1..n -> Pairs] : n \in 0..MaxConnections }

\* ------------------------------------------------------------ state
Config == <<latency_base_ms, fallback_latency_ms, system>>

\* IharaGrubbTransform.__init__ with the default arguments.
Init ==
    /\ nodes = <<>>
    /\ user_node = 0
    /\ latency_base_ms = DEFAULT_LATENCY_BASE_MS
    /\ fallback_latency_ms = FALLBACK_LATENCY_MS
    /\ system \in NetworkSystems
    /\ ret = [op |-> "__init__"]

\* add_node refusing coordinates outside haversine's range.
AddNode_Validated(name, lat, lon, elevation_floor, ip_address, is_user_node) ==
    /\ Len(nodes) < MaxNodes
    /\ IF -90 * Scale <= lat /\ lat <= 90 * Scale /\ -180 * Scale <= lon /\ lon <= 180 * Scale
       THEN /\ nodes' = Append(nodes, Node(name, lat, lon, elevation_floor, ip_address))
            /\ user_node' = IF is_user_node THEN Len(nodes) + 1 ELSE user_node
            /\ ret' = [op |-> "add_node", exc |-> "none", index |-> Len(nodes) + 1]
       ELSE /\ UNCHANGED <<nodes, user_node>>
            /\ ret' = [op |-> "add_node", exc |-> "ValueError", index |-> 0]
    /\ UNCHANGED Config

\* add_node(name, lat, lon, elevation_floor, ip_address, is_user_node)
AddNode(name, lat, lon, elevation_floor, ip_address, is_user_node) ==
    /\ Len(nodes) < MaxNodes
    /\ nodes' = Append(nodes, Node(name, lat, lon, elevation_floor, ip_address))
    /\ user_node' = IF is_user_node THEN Len(nodes) + 1 ELSE user_node
    /\ ret' = [op |-> "add_node", exc |-> "none", index |-> Len(nodes) + 1]
    /\ UNCHANGED Config

\* add_user_node_auto adding a node at (0, 0) when no service answers.
AddUserNodeAuto_Fallback(name, elevation_floor, resp) ==
    \E r \in {fetch_user_location(resp)} :
        /\ ret' = [op |-> "add_user_node_auto", resp |-> resp, exc |-> r.exc,
                   lat |-> r.lat, lon |-> r.lon, ip |-> r.ip, log |-> r.log]
        /\ Len(nodes) < MaxNodes
        /\ nodes' = Append(nodes, Node(name, r.lat, r.lon, elevation_floor,
                                       IF Truthy(r.ip) THEN r.ip.s ELSE ZeroAddress))
        /\ user_node' = Len(nodes) + 1
        /\ UNCHANGED Config

\* add_user_node_auto(name, elevation_floor), the services answering resp.
AddUserNodeAuto(name, elevation_floor, resp) ==
    \E r \in {fetch_user_location(resp)} :
        /\ ret' = [op |-> "add_user_node_auto", resp |-> resp, exc |-> r.exc,
                   lat |-> r.lat, lon |-> r.lon, ip |-> r.ip, log |-> r.log]
        /\ IF r.exc # "none"
           THEN UNCHANGED <<nodes, user_node>>
           ELSE /\ Len(nodes) < MaxNodes
                /\ nodes' = Append(nodes, Node(name, r.lat, r.lon, elevation_floor,
                                               IF Truthy(r.ip) THEN r.ip.s ELSE ZeroAddress))
                /\ user_node' = Len(nodes) + 1
        /\ UNCHANGED Config

\* The ping processes a pass over the nodes can meet: one per node that carries
\* an address (a node without one is never probed).
IdleRun == Run("exit", 0, FALSE, <<>>, 0)
RunLists ==
    { runs \in [1..Len(nodes) -> NetworkRuns \cup {IdleRun}] :
        \A i \in 1..Len(nodes) : (nodes[i].ip_address = <<>>) <=> (runs[i] = IdleRun) }

\* plot_net probes only when some node is unmeasured.
PlotRunLists ==
    IF \E i \in 1..Len(nodes) : ~nodes[i].latency.some THEN RunLists
    ELSE { [i \in 1..Len(nodes) |-> IdleRun] }

Envs(runs) == [i \in 1..Len(nodes) |-> ProbeEnv(system, runs[i])]

\* measure_latencies()
MeasureLatencies(runs) ==
    \E m \in {measure_latencies(nodes, user_node, fallback_latency_ms, Envs(runs))} :
        /\ nodes' = m.nodes
        /\ ret' = [op |-> "measure_latencies", exc |-> "none", runs |-> runs,
                   probes |-> m.probes]
        /\ UNCHANGED <<user_node, Config>>

\* plot_net(connections)
PlotNet(connections, runs) ==
    \E p \in {plot_net(nodes, user_node, latency_base_ms, fallback_latency_ms, connections,
                       Envs(runs))} :
        /\ nodes' = p.nodes
        /\ ret' = [op |-> "plot_net", exc |-> p.exc, connections |-> connections,
                   measured |-> p.measured, probes |-> p.probes, calculated |-> p.calculated]
        /\ UNCHANGED <<user_node, Config>>

Next ==
    \/ \E a \in NodeInputs, u \in BOOLEAN : AddNode(a[1], a[2], a[3], a[4], a[5], u)
    \/ \E resp \in NetworkResponseLists : AddUserNodeAuto("A", 15 * Scale, resp)
    \/ \E runs \in RunLists : MeasureLatencies(runs)
    \/ \E connections \in ConnectionLists, runs \in PlotRunLists : PlotNet(connections, runs)

Spec == Init /\ [][Next]_vars

\* ------------------------------------------------------------ GeoLocator alone
\* fetch_user_location(), the services answering resp.
FetchUserLocation(resp) ==
    \E r \in {fetch_user_location(resp)} :
        /\ ret' = [op |-> "fetch_user_location", resp |-> resp, exc |-> r.exc,
                   lat |-> r.lat, lon |-> r.lon, ip |-> r.ip, log |-> r.log]
        /\ UNCHANGED <<nodes, user_node, Config>>

\* _parse_ipapi_response(data)
ParseIpapi(data) ==
    \E t \in {_parse_ipapi_response(data)} :
        /\ ret' = [op |-> "_parse_ipapi_response", data |-> data, exc |-> t.exc,
                   lat |-> t.lat, lon |-> t.lon, ip |-> t.ip]
        /\ UNCHANGED <<nodes, user_node, Config>>

\* _parse_ipinfo_response(data)
ParseIpinfo(data) ==
    \E t \in {_parse_ipinfo_response(data)} :
        /\ ret' = [op |-> "_parse_ipinfo_response", data |-> data, exc |-> t.exc,
                   lat |-> t.lat, lon |-> t.lon, ip |-> t.ip]
        /\ UNCHANGED <<nodes, user_node, Config>>

NextGeo ==
    \/ \E resp \in ResponseLists : FetchUserLocation(resp)
    \/ \E data \in IpapiData \cup IpinfoData : ParseIpapi(data)
    \/ \E data \in IpapiData \cup IpinfoData : ParseIpinfo(data)

SpecGeo == Init /\ [][NextGeo]_vars

\* ------------------------------------------------------------ LatencyProbe alone
\* IharaGrubbTransform.__init__ with a fallback_latency_ms argument, on any host.
InitProbe ==
    /\ nodes = <<>>
    /\ user_node = 0
    /\ latency_base_ms = DEFAULT_LATENCY_BASE_MS
    /\ fallback_latency_ms \in FallbackValues
    /\ system \in Systems
    /\ ret = [op |-> "__init__"]

\* get_live_latency(ip_address), the ping process doing run.
GetLiveLatency(ip_address, run) ==
    \E r \in {get_live_latency(ip_address, fallback_latency_ms, ProbeEnv(system, run))} :
        /\ ret' = [op |-> "get_live_latency", ip_address |-> ip_address, run |-> run,
                   exc |-> r.exc, val |-> r.val, spawned |-> r.spawned, branch |-> r.branch]
        /\ UNCHANGED <<nodes, user_node, Config>>

NextProbe == \E ip_address \in Addresses, run \in PingRuns(system) : GetLiveLatency(ip_address, run)

SpecProbe == InitProbe /\ [][NextProbe]_vars

\* ------------------------------------------------------------ GeoMath alone
LatValues == { -91 * Scale, -90 * Scale, 37775, 90 * Scale, 91 * Scale }
LonValues == { -181 * Scale, -180 * Scale, -122419, 180 * Scale, 181 * Scale }

\* haversine(lat1, lon1, lat2, lon2)
Haversine(lat1, lon1, lat2, lon2) ==
    \E h \in {haversine(lat1, lon1, lat2, lon2)} :
        /\ ret' = [op |-> "haversine", lat1 |-> lat1, lon1 |-> lon1, lat2 |-> lat2,
                   lon2 |-> lon2, exc |-> h.exc, msg |-> h.msg, val |-> h.val]
        /\ UNCHANGED <<nodes, user_node, Config>>

NextMath ==
    \E lat1 \in LatValues, lon1 \in LonValues, lat2 \in LatValues, lon2 \in LonValues :
        Haversine(lat1, lon1, lat2, lon2)

SpecMath == Init /\ [][NextMath]_vars

\* ------------------------------------------------------------ EffortTransform alone
\* IharaGrubbTransform.__init__ with a latency_base_ms argument.
InitEffort ==
    /\ nodes = <<>>
    /\ user_node = 0
    /\ latency_base_ms \in LatencyBaseValues
    /\ fallback_latency_ms = FALLBACK_LATENCY_MS
    /\ system \in NetworkSystems
    /\ ret = [op |-> "__init__"]

\* Latencies a node handed to calculate_ig_distance may carry.
LatencyValues == { None, Some(0), Some(50 * Scale), Some(100 * Scale) }

EffortNodes ==
    { [Node(a[1], a[2], a[3], a[4], a[5]) EXCEPT !.latency = l] : a \in NodeInputs, l \in LatencyValues }

\* calculate_ig_distance(node1, node2)
CalculateIgDistance(node1, node2) ==
    \E r \in {calculate_ig_distance(node1, node2, latency_base_ms)} :
        /\ ret' = [op |-> "calculate_ig_distance", node1 |-> node1, node2 |-> node2,
                   exc |-> r.exc, msg |-> r.msg, physical_dist |-> r.physical_dist,
                   worst_latency |-> r.worst_latency, ig_distance |-> r.ig_distance,
                   ig_factor |-> r.ig_factor]
        /\ UNCHANGED <<nodes, user_node, Config>>

NextEffort == \E node1 \in EffortNodes, node2 \in EffortNodes : CalculateIgDistance(node1, node2)

SpecEffort == InitEffort /\ [][NextEffort]_vars

\* ------------------------------------------------------------ properties
\* Service i answers resp[i] and is accepted: the request succeeds, the
\* adapter returns, and the coordinates are not both zero.
Accepted(resp, i) ==
    /\ resp[i].kind = "ok"
    /\ Parse(services[i], resp[i].data).exc = "none"
    /\ \/ Parse(services[i], resp[i].data).lat # 0
       \/ Parse(services[i], resp[i].data).lon # 0

\* Every service fails: transport error, status error, undecodable body,
\* an adapter that raises, or both-zero coordinates.
AllFail(resp) == \A i \in 1..Len(services) : ~Accepted(resp, i)

\* The first service that is accepted.
FirstAccepted(resp) ==
    CHOOSE i \in 1..Len(services) : Accepted(resp, i) /\ \A j \in 1..(i - 1) : ~Accepted(resp, j)

ZeroThenIpinfo ==
    << Ok([lat |-> Num(0), lon |-> Num(0)]), Ok([loc |-> Str(S_40_73), ip |-> Str(S_9_9_9_9)]) >>

\* C1: fetch_user_location contacts ip-api.com first and ipinfo.io second,
\* stops at the first service that is accepted and returns that service's
\* triple; no later service is contacted; a service answering lat = 0, lon = 0
\* is passed over; {lat: 0, lon: 0} then {loc: "40.0,-73.0", ip: "9.9.9.9"}
\* gives (40.0, -73.0, "9.9.9.9").
C1_FirstAcceptedService ==
    ret.op = "fetch_user_location" =>
        /\ Len(ret.log) >= 1 /\ ret.log[1].service = "ip-api.com"
        /\ Len(ret.log) >= 2 => ret.log[2].service = "ipinfo.io"
        /\ Len(ret.log) <= 2
        /\ \A k \in 1..Len(ret.log) :
               (ret.log[k].branch = "accepted") <=> (k = Len(ret.log) /\ ret.exc = "none")
        /\ IF AllFail(ret.resp)
           THEN ret.exc = "RuntimeError" /\ Len(ret.log) = 2
           ELSE /\ ret.exc = "none"
                /\ Len(ret.log) = FirstAccepted(ret.resp)
                /\ <<ret.lat, ret.lon, ret.ip>>
                     = << Parse(services[FirstAccepted(ret.resp)], ret.resp[FirstAccepted(ret.resp)].data).lat,
                          Parse(services[FirstAccepted(ret.resp)], ret.resp[FirstAccepted(ret.resp)].data).lon,
                          Parse(services[FirstAccepted(ret.resp)], ret.resp[FirstAccepted(ret.resp)].data).ip >>
        /\ ret.resp = ZeroThenIpinfo =>
               <<ret.exc, ret.lat, ret.lon, ret.ip>> = <<"none", 40 * Scale, -73 * Scale, Str(S_9_9_9_9)>>

\* The first service answered both zero and the second was accepted.
C1_Witness ==
    /\ ret.op = "fetch_user_location"
    /\ ret.resp = ZeroThenIpinfo
    /\ ret.log = << [service |-> "ip-api.com", branch |-> "invalid_coordinates"],
                    [service |-> "ipinfo.io", branch |-> "accepted"] >>
    /\ ret.lat = 40 * Scale

\* C2: when every service fails, fetch_user_location raises RuntimeError (and
\* only then), and add_user_node_auto propagates it leaving the node
\* collection and the self node as they were.
C2_AllFailRaises ==
    [][ ret'.op = "add_user_node_auto" =>
            /\ AllFail(ret'.resp) <=> ret'.exc = "RuntimeError"
            /\ AllFail(ret'.resp) => nodes' = nodes /\ user_node' = user_node
            /\ ~AllFail(ret'.resp) => ret'.exc = "none" /\ Len(nodes') = Len(nodes) + 1 ]_vars

\* add_user_node_auto failed on a model that holds nodes and a self node,
\* after a both-zero answer and an adapter that raised.
C2_Witness ==
    /\ ret.op = "add_user_node_auto"
    /\ ret.exc = "RuntimeError"
    /\ ret.log = << [service |-> "ip-api.com", branch |-> "invalid_coordinates"],
                    [service |-> "ipinfo.io", branch |-> "Unexpected"] >>
    /\ Len(nodes) >= 1
    /\ user_node # 0

\* The text of a number float() accepts: an optional sign, digits with at
\* most one point among them, at least one digit.
NumericText(s) ==
    /\ \A i \in 2..Len(s) : s[i] \in Digits \cup {"."}
    /\ s # <<>> /\ s[1] \in Digits \cup {".", "-", "+"}
    /\ Cardinality({ i \in 1..Len(s) : s[i] = "." }) <= 1
    /\ \E i \in 1..Len(s) : s[i] \in Digits

\* A JSON value float() converts.
Numeric(v) == v.t = "num" \/ (v.t = "str" /\ NumericText(v.s))

\* A two-part numeric "lat,lon" string.
TwoPartNumeric(s) ==
    \E i \in 1..Len(s) :
        /\ s[i] = ","
        /\ \A j \in 1..Len(s) : s[j] = "," => j = i
        /\ NumericText(SubSeq(s, 1, i - 1))
        /\ NumericText(SubSeq(s, i + 1, Len(s)))

\* A coordinate field the adapter reads is missing or malformed.
Malformed(op, data) ==
    IF op = "_parse_ipapi_response"
    THEN \/ {"lat", "lon"} \ DOMAIN data # {}
         \/ ~Numeric(Get(data, "lat", Num(0)))
         \/ ~Numeric(Get(data, "lon", Num(0)))
    ELSE \/ "loc" \notin DOMAIN data
         \/ Get(data, "loc", Null).t # "str"
         \/ ~TwoPartNumeric(Get(data, "loc", Null).s)

\* The address field the adapter reads is missing.
NoAddress(op, data) ==
    IF op = "_parse_ipapi_response" THEN "query" \notin DOMAIN data ELSE "ip" \notin DOMAIN data

\* C3 as stated: neither adapter ever raises; where a coordinate field is
\* missing or malformed it returns zero coordinates, and where the address is
\* missing the empty address.
C3_AdaptersNeverRaise ==
    ret.op \in {"_parse_ipapi_response", "_parse_ipinfo_response"} =>
        /\ ret.exc = "none"
        /\ Malformed(ret.op, ret.data) => ret.lat = 0 /\ ret.lon = 0
        /\ NoAddress(ret.op, ret.data) => ret.ip = Str(<<>>)

\* C3 as amended: _parse_ipapi_response puts 0 and the empty address in the
\* place of an absent field only, and raises ValueError for a lat or lon that is
\* not numeric text and TypeError for one that is null; _parse_ipinfo_response
\* raises AttributeError when loc is not a string, and otherwise returns, with
\* zero coordinates when loc is not a two-part numeric "lat,lon" string, and
\* always with the mapping's ip field (empty only when ip is absent).
C3_AdaptersTolerance ==
    /\ ret.op = "_parse_ipapi_response" =>
           /\ (ret.exc = "none") <=> (Numeric(Get(ret.data, "lat", Num(0))) /\ Numeric(Get(ret.data, "lon", Num(0))))
           /\ ret.exc \in {"none", "ValueError", "TypeError"}
           /\ ret.exc = "TypeError" => Null \in {Get(ret.data, "lat", Num(0)), Get(ret.data, "lon", Num(0))}
           /\ ret.exc = "ValueError" =>
                  \E k \in {"lat", "lon"} : Get(ret.data, k, Num(0)).t = "str"
           /\ ret.exc = "none" =>
                  /\ "lat" \notin DOMAIN ret.data => ret.lat = 0
                  /\ "lon" \notin DOMAIN ret.data => ret.lon = 0
                  /\ ret.ip = Get(ret.data, "query", Str(<<>>))
    /\ ret.op = "_parse_ipinfo_response" =>
           /\ (ret.exc = "none") <=> (Get(ret.data, "loc", Str(<<"0", ",", "0">>)).t = "str")
           /\ ret.exc \in {"none", "AttributeError"}
           /\ ret.exc = "none" =>
                  /\ ret.ip = Get(ret.data, "ip", Str(<<>>))
                  /\ ~TwoPartNumeric(Get(ret.data, "loc", Str(<<"0", ",", "0">>)).s) =>
                         ret.lat = 0 /\ ret.lon = 0

\* _parse_ipinfo_response returned zero coordinates and the ip field for a loc
\* whose first part is not a number.
C3_Witness ==
    /\ ret.op = "_parse_ipinfo_response"
    /\ ret.data = [loc |-> Str(<<"a", "b", "c", ",", "1">>), ip |-> Str(S_9_9_9_9)]
    /\ <<ret.exc, ret.lat, ret.lon, ret.ip>> = <<"none", 0, 0, Str(S_9_9_9_9)>>

\* The address is one get_live_latency probes.
Probed(ip_address) == ip_address # <<>> /\ ip_address # ZeroAddress

Supported(sys) == sys \in {"Windows", "Linux", "Darwin"}

\* C4: get_live_latency never raises; for an address it probes it returns the
\* configured fallback_latency_ms on an unrecognized platform (without
\* spawning), on a timeout, on an invocation error and on a non-zero exit code.
C4_FallbackNeverRaises ==
    ret.op = "get_live_latency" =>
        /\ ret.exc = "none"
        /\ Probed(ret.ip_address) /\ ~Supported(system) =>
               ret.val = fallback_latency_ms /\ ~ret.spawned
        /\ Probed(ret.ip_address) /\ Supported(system)
             /\ ret.run.kind \in {"TimeoutExpired", "Exception"} =>
               ret.val = fallback_latency_ms
        /\ Probed(ret.ip_address) /\ Supported(system)
             /\ ret.run.kind = "exit" /\ ret.run.returncode # 0 =>
               ret.val = fallback_latency_ms

\* A ping that exited non-zero with matching output, under a configured
\* fallback other than the default.
C4_Witness ==
    /\ ret.op = "get_live_latency"
    /\ system = "Linux"
    /\ ret.ip_address = S_1_1_1_1
    /\ ret.run.kind = "exit" /\ ret.run.returncode = 1 /\ ret.run.matched
    /\ fallback_latency_ms = 250 * Scale
    /\ ret.val = 250 * Scale

\* C5: for the empty address and for "0.0.0.0", get_live_latency returns 0.0
\* without spawning the ping process, on every platform.
C5_SentinelAddress ==
    ret.op = "get_live_latency" /\ ret.ip_address \in {<<>>, ZeroAddress} =>
        ret.exc = "none" /\ ret.val = 0 /\ ~ret.spawned

\* The sentinel address on an unsupported platform.
C5_Witness ==
    /\ ret.op = "get_live_latency"
    /\ ret.ip_address = ZeroAddress
    /\ system = "Java"
    /\ ret.val = 0

LatInRange(lat) == -90 * Scale <= lat /\ lat <= 90 * Scale
LonInRange(lon) == -180 * Scale <= lon /\ lon <= 180 * Scale

\* C6: haversine raises ValueError if and only if a latitude is outside
\* [-90, 90] or a longitude outside [-180, 180], whichever point carries it;
\* the boundary values are accepted.
C6_RangeCheck ==
    ret.op = "haversine" =>
        /\ ret.exc \in {"none", "ValueError"}
        /\ (ret.exc = "ValueError") <=>
               ~(/\ LatInRange(ret.lat1) /\ LatInRange(ret.lat2)
                 /\ LonInRange(ret.lon1) /\ LonInRange(ret.lon2))
        /\ ret.exc = "none" => ret.val >= 0

\* haversine returned a distance for two points on the boundary.
C6_Witness ==
    /\ ret.op = "haversine"
    /\ <<ret.lat1, ret.lon1, ret.lat2, ret.lon2>> = <<90 * Scale, -180 * Scale, -90 * Scale, 180 * Scale>>
    /\ ret.exc = "none"

LatencyNotMeasured ==
    "Latency must be fetched before calculating IG distance. Call measure_latencies() first."

\* C7: calculate_ig_distance raises the latency-not-measured ValueError exactly
\* when a node's latency is None; a latency of 0.0 is a measured one.
C7_LatencyNotMeasured ==
    ret.op = "calculate_ig_distance" =>
        ((ret.exc = "ValueError" /\ ret.msg = LatencyNotMeasured)
           <=> (~ret.node1.latency.some \/ ~ret.node2.latency.some))

\* calculate_ig_distance returned for a node whose latency is 0.0.
C7_Witness ==
    /\ ret.op = "calculate_ig_distance"
    /\ ret.node1.latency = Some(0)
    /\ ret.node2.latency.some
    /\ ret.exc = "none"

\* C8: for two measured nodes (with coordinates in range) calculate_ig_distance
\* returns worst_latency = max of the two latencies, ig_factor
\* = 1 + worst_latency / latency_base_ms, physical_dist = the haversine distance
\* and ig_distance = physical_dist * ig_factor; with base 100 the factor is 1.0
\* for worst latency 0 and 2.0 for worst latency 100.
C8_EffortFormula ==
    ret.op = "calculate_ig_distance" /\ ret.node1.latency.some /\ ret.node2.latency.some
      /\ LatInRange(ret.node1.lat) /\ LatInRange(ret.node2.lat)
      /\ LonInRange(ret.node1.lon) /\ LonInRange(ret.node2.lon) =>
        /\ ret.exc = "none"
        /\ ret.worst_latency \in {ret.node1.latency.v, ret.node2.latency.v}
        /\ ret.worst_latency >= ret.node1.latency.v /\ ret.worst_latency >= ret.node2.latency.v
        /\ ret.ig_factor = Scale + (ret.worst_latency * Scale) \div latency_base_ms
        /\ ret.physical_dist
             = haversine(ret.node1.lat, ret.node1.lon, ret.node2.lat, ret.node2.lon).val
        /\ ret.ig_distance = FMul(ret.physical_dist, ret.ig_factor)
        /\ latency_base_ms = 100 * Scale /\ ret.worst_latency = 0 =>
               ret.ig_factor = 1 * Scale /\ ret.ig_distance = ret.physical_dist
        /\ latency_base_ms = 100 * Scale /\ ret.worst_latency = 100 * Scale =>
               ret.ig_factor = 2 * Scale /\ ret.ig_distance = 2 * ret.physical_dist

\* Two distinct places, latencies 50 and 100 ms, base 100: the factor is 2.0.
C8_Witness ==
    /\ ret.op = "calculate_ig_distance"
    /\ latency_base_ms = 100 * Scale
    /\ ret.node1.latency = Some(50 * Scale) /\ ret.node2.latency = Some(100 * Scale)
    /\ ret.physical_dist > 4000 * Scale
    /\ ret.ig_factor = 2 * Scale
    /\ ret.ig_distance = 2 * ret.physical_dist

\* The number of nodes among the first i that carry an address.
WithAddress(i) == Cardinality({ j \in 1..i : nodes[j].ip_address # <<>> })

\* C9: after measure_latencies every node has a latency: a node carrying an
\* address the value get_live_latency returned for it, the probes having been
\* made one per such node in insertion order; a node without an address 5.0,
\* except the self node without an address, 0.0.
C9_MeasureLatencies ==
    ret.op = "measure_latencies" =>
        /\ Len(ret.probes) = WithAddress(Len(nodes))
        /\ \A i \in 1..Len(nodes) :
               /\ nodes[i].latency.some
               /\ nodes[i].ip_address # <<>> =>
                      /\ ret.probes[WithAddress(i)].ip_address = nodes[i].ip_address
                      /\ ret.probes[WithAddress(i)].val = nodes[i].latency.v
                      /\ nodes[i].latency.v
                           = get_live_latency(nodes[i].ip_address, fallback_latency_ms,
                                              ProbeEnv(system, ret.runs[i])).val
               /\ nodes[i].ip_address = <<>> /\ i # user_node => nodes[i].latency.v = 5 * Scale
               /\ nodes[i].ip_address = <<>> /\ i = user_node => nodes[i].latency.v = 0

\* measure_latencies ran over a self node without an address and a node with
\* one, whose ping answered.
C9_Witness ==
    /\ ret.op = "measure_latencies"
    /\ Len(nodes) = 2
    /\ user_node = 1 /\ nodes[1].ip_address = <<>> /\ nodes[1].latency = Some(0)
    /\ nodes[2].ip_address = S_1_1_1_1 /\ nodes[2].latency = Some(12300)

\* Both names of the pair resolve to a node.
Resolves(pair) == NodeMapGet(nodes, pair[1]) # 0 /\ NodeMapGet(nodes, pair[2]) # 0

\* The coordinates of the node are in haversine's range.
InRange(node) == LatInRange(node.lat) /\ LonInRange(node.lon)

\* The pair resolves to two nodes haversine accepts.
Computable(pair) ==
    /\ Resolves(pair)
    /\ InRange(nodes[NodeMapGet(nodes, pair[1])])
    /\ InRange(nodes[NodeMapGet(nodes, pair[2])])

\* The calculated connections are those of the pairs `kept`, in order.
CalculatedFor(kept) ==
    /\ Len(ret.calculated) = Len(kept)
    /\ \A j \in 1..Len(kept) :
           /\ ret.calculated[j].n1 = NodeMapGet(nodes, kept[j][1])
           /\ ret.calculated[j].n2 = NodeMapGet(nodes, kept[j][2])

\* The only exception of plot_net on a model that holds nodes is that of the
\* drawing, when every calculated ig_distance is 0.0.
OnlyDrawingRaises ==
    /\ ret.exc \in {"none", "ZeroDivisionError"}
    /\ ret.exc = "ZeroDivisionError" <=>
           /\ ret.calculated # <<>>
           /\ \A j \in 1..Len(ret.calculated) : ret.calculated[j].ig_distance = 0

\* C10 as stated: on a model that holds nodes, the connection loop of plot_net
\* raises nothing, and its results hold one entry, in request order, for each
\* pair whose two names resolve, and none for the others.
C10_EntryPerResolvedPair ==
    ret.op = "plot_net" /\ nodes # <<>> =>
        OnlyDrawingRaises /\ CalculatedFor(SelectSeq(ret.connections, Resolves))

\* C10 as amended: on a model that holds nodes, the connection loop of plot_net
\* raises nothing, and its results hold one entry, in request order, for each
\* pair whose two names resolve to nodes with coordinates in range; a pair
\* with an unresolved name, and a pair whose distance raises ValueError, are
\* skipped.
C10_EntryPerComputablePair ==
    ret.op = "plot_net" /\ nodes # <<>> =>
        OnlyDrawingRaises /\ CalculatedFor(SelectSeq(ret.connections, Computable))

\* plot_net skipped an unresolved pair and computed the pair after it.
C10_Witness ==
    /\ ret.op = "plot_net"
    /\ Len(ret.connections) = 2
    /\ ~Resolves(ret.connections[1])
    /\ Computable(ret.connections[2])
    /\ Len(ret.calculated) = 1
    /\ ret.calculated[1].ig_distance > 0
    /\ ret.exc = "none"

\* C11 as stated: every node of the collection has its latitude in [-90, 90]
\* and its longitude in [-180, 180], in every reachable state.
C11_StoredCoordinatesInRange == \A i \in 1..Len(nodes) : InRange(nodes[i])

\* C11 as amended: add_node never raises and stores the coordinates it is
\* given, in range or not, leaving the nodes before it as they were; the range
\* is enforced only where a distance is computed, so that every connection
\* plot_net calculates joins two nodes with coordinates in range.
C11_RangeEnforcedAtDistanceOnly ==
    [][ /\ ret'.op = "add_node" =>
              /\ ret'.exc = "none"
              /\ Len(nodes') = Len(nodes) + 1 /\ ret'.index = Len(nodes')
              /\ SubSeq(nodes', 1, Len(nodes)) = nodes
              /\ \E a \in NodeInputs :
                     <<nodes'[ret'.index].name, nodes'[ret'.index].lat, nodes'[ret'.index].lon>>
                       = <<a[1], a[2], a[3]>>
        /\ ret'.op = "plot_net" =>
              \A j \in 1..Len(ret'.calculated) :
                  /\ LatInRange(nodes'[ret'.calculated[j].n1].lat)
                  /\ LonInRange(nodes'[ret'.calculated[j].n1].lon)
                  /\ LatInRange(nodes'[ret'.calculated[j].n2].lat)
                  /\ LonInRange(nodes'[ret'.calculated[j].n2].lon) ]_vars

\* add_node has stored a node at latitude 91.
C11_Witness ==
    /\ ret.op = "add_node"
    /\ ret.exc = "none"
    /\ nodes[ret.index].lat = 91 * Scale

\* The ping process of the call ran to its exit on a supported platform.
PingExited ==
    /\ ret.op = "get_live_latency"
    /\ Probed(ret.ip_address) /\ Supported(system)
    /\ ret.run.kind = "exit"

\* C12 as stated: on exit code zero a match returns the extracted value, and no
\* match returns half the wall-clock duration in milliseconds, not the
\* fallback; a non-zero exit returns the fallback even when the output matches.
C12_ExtractedOrEstimated ==
    PingExited =>
        /\ ret.run.returncode = 0 /\ ret.run.matched =>
               ret.branch = "parsed" /\ ret.val = ParseFloat(ret.run.group).val
        /\ ret.run.returncode = 0 /\ ~ret.run.matched =>
               ret.val = (ret.run.elapsed * 1000) \div 2 /\ ret.val # fallback_latency_ms
        /\ ret.run.returncode # 0 => ret.val = fallback_latency_ms

\* C12 as amended: on exit code zero a match whose captured text is a number
\* returns that number ("12" is 12.0, "12.3" is 12.3); a match whose captured
\* text is not a number ("1.2.3", which the Linux and Darwin pattern admits)
\* returns the fallback; no match returns half the wall-clock duration in
\* milliseconds, not the fallback; a non-zero exit returns the fallback even
\* when the output matches.
C12_ExtractedNumberOrEstimated ==
    PingExited =>
        /\ ret.run.returncode = 0 /\ ret.run.matched /\ NumericText(ret.run.group) =>
               /\ ret.val = ParseFloat(ret.run.group).val
               /\ ret.run.group = <<"1", "2">> => ret.val = 12 * Scale
               /\ ret.run.group = <<"1", "2", ".", "3">> => ret.val = 12300
        /\ ret.run.returncode = 0 /\ ret.run.matched /\ ~NumericText(ret.run.group) =>
               ret.val = fallback_latency_ms /\ system # "Windows"
        /\ ret.run.returncode = 0 /\ ~ret.run.matched =>
               ret.val = (ret.run.elapsed * 1000) \div 2 /\ ret.val # fallback_latency_ms
        /\ ret.run.returncode # 0 => ret.val = fallback_latency_ms

\* A clean exit whose output did not match: the estimate, 20.0 ms for 0.040 s.
C12_Witness ==
    /\ PingExited
    /\ ret.run.returncode = 0 /\ ~ret.run.matched
    /\ ret.run.elapsed = 40
    /\ ret.val = 20 * Scale

\* C13: plot_net runs measure_latencies, over all nodes and before the
\* connection loop, if and only if some node's latency is absent when it
\* starts; when none is absent it probes nothing and leaves the nodes as they
\* were; every connection it calculates joins two measured nodes and carries
\* the larger of their latencies, and no requested pair meets the
\* latency-not-measured error.
C13_LazyMeasurement ==
    [][ ret'.op = "plot_net" =>
            /\ ret'.measured <=> \E i \in 1..Len(nodes) : ~nodes[i].latency.some
            /\ ~ret'.measured => ret'.probes = <<>> /\ nodes' = nodes
            /\ ret'.measured =>
                   /\ Len(nodes') = Len(nodes)
                   /\ \A i \in 1..Len(nodes') : nodes'[i].latency.some
                   /\ Len(ret'.probes)
                        = Cardinality({ i \in 1..Len(nodes) : nodes[i].ip_address # <<>> })
            /\ \A j \in 1..Len(ret'.calculated) :
                   /\ nodes'[ret'.calculated[j].n1].latency.some
                   /\ nodes'[ret'.calculated[j].n2].latency.some
                   /\ ret'.calculated[j].worst_latency
                        \in { nodes'[ret'.calculated[j].n1].latency.v,
                              nodes'[ret'.calculated[j].n2].latency.v }
                   /\ ret'.calculated[j].worst_latency >= nodes'[ret'.calculated[j].n1].latency.v
                   /\ ret'.calculated[j].worst_latency >= nodes'[ret'.calculated[j].n2].latency.v
            /\ \A k \in 1..Len(ret'.connections) :
                   NodeMapGet(nodes', ret'.connections[k][1]) # 0
                     /\ NodeMapGet(nodes', ret'.connections[k][2]) # 0 =>
                       calculate_ig_distance(nodes'[NodeMapGet(nodes', ret'.connections[k][1])],
                                             nodes'[NodeMapGet(nodes', ret'.connections[k][2])],
                                             latency_base_ms).msg # LatencyNotMeasured
            /\ ret'.exc = "ValueError" => nodes = <<>> ]_vars

\* plot_net found a latency absent, probed, and calculated a connection.
C13_Witness ==
    /\ ret.op = "plot_net"
    /\ ret.measured
    /\ Len(ret.probes) >= 1
    /\ Len(ret.calculated) >= 1
    /\ ret.calculated[1].worst_latency = 12300

====
